---------------------------- MODULE Spec2Model ----------------------------
(***************************************************************************)
(* A model of the HPI archive reader of hpiutil2 (rts/hpiutil2/hpifile.cpp) *)
(*                                                                         *)
(*   hpifile::hpifile / validate   open: header check, key, directory walk *)
(*   hpifile::dirinfo / fileinfo   the recursive directory walk            *)
(*   hpifile::getdata              chunk table and chunk decoding          *)
(*                                                                         *)
(* An archive file is modelled byte by byte (after the stream's transform  *)
(* has been undone).  The stream (scrambledfile), the bounded view         *)
(* (substream) and the chunk codec (sqshstream) are collaborators whose    *)
(* code is not part of hpifile.cpp; they are modelled by their contracts.  *)
(***************************************************************************)
EXTENDS Integers, Sequences, FiniteSets, TLC

(***************************************************************************)
(* Bounds of the model.                                                    *)
(***************************************************************************)
\* Deepest nesting of dirinfo calls the model follows (a directory graph
\* with a cycle recurses without end in the code).
MaxDepth == 4

(***************************************************************************)
(* Format constants.  The signatures are those of the HPI format; the     *)
(* reader only compares them, so all that matters is that they differ.     *)
(***************************************************************************)
\* Container signature ("HAPI"), hpifile.h.
HAPI_MAGIC == 1229996360
\* Save-game subtype signature ("BANK"), hpifile.h.
BANK_MAGIC == 1263419714
\* Directory-subtype signature of the supported version, hpifile.h.
HAPI_VERSION_MAGIC == 65536
\* Subtype signature of the newer major version, hpifile.h.
HAPI2_VERSION_MAGIC == 131072
\* Marker that opens every compressed chunk ("SQSH"), sqshstream.
SQSH_MAGIC == 1213420883
\* The path separator '/', hpifile.h.
PATHSEPARATOR == 47
\* getdata's second argument to bitdiv and bitmod: chunks hold 2^16 bytes.
ChunkBits == 16

Pow2(n) == 2 ^ n

(***************************************************************************)
(* Byte-level encoders, used only to write the archive images below.       *)
(***************************************************************************)
U32LE(n) == << n % 256, (n \div 256) % 256, (n \div 65536) % 256, (n \div 16777216) % 256 >>

Header(magic1, magic2, dataOffset, key, rootDirOffset) ==
    U32LE(magic1) \o U32LE(magic2) \o U32LE(dataOffset) \o U32LE(key) \o U32LE(rootDirOffset)

DirHead(entries) == U32LE(entries) \o U32LE(0)

Rec(nameoffset, infooffset, entrytype) == U32LE(nameoffset) \o U32LE(infooffset) \o << entrytype >>

Str(s) == s \o << 0 >>

FileInfo(doff, dsize) == U32LE(doff) \o U32LE(dsize)

RECURSIVE Table(_)
Table(sizes) == IF sizes = << >> THEN << >> ELSE U32LE(Head(sizes)) \o Table(Tail(sizes))

\* The compressed bytes of a chunk, n of them; they stand for its content.
Payload(declen, n) == [k \in 1..n |-> (declen + 16 * k) % 256]

\* A valid chunk: the marker, the length it decompresses to, the payload.
Chunk(declen, n) == U32LE(SQSH_MAGIC) \o U32LE(declen) \o Payload(declen, n)

\* A chunk whose marker has been overwritten.
BadChunk(declen, n) == U32LE(0) \o U32LE(declen) \o Payload(declen, n)

(***************************************************************************)
(* Archive images.  "@n" is the byte offset of each piece.  Every offset   *)
(* and size is far below 2^31, so that no uint32_t sum of the code wraps   *)
(* on these images.                                                        *)
(***************************************************************************)
(* An archive whose root directory has no records. *)
ImgEmpty ==
       Header(HAPI_MAGIC, HAPI_VERSION_MAGIC, 20, 0, 20)   \* @0
    \o DirHead(0)                       \* @20 directory root: entries, reserved

(* Root with three well-formed files: "a" of size 0 (no chunk), "b" of one chunk,
   "c" of two chunks (65536 + 5 bytes) stored back-to-back after the table. *)
ImgFlat ==
       Header(HAPI_MAGIC, HAPI_VERSION_MAGIC, 20, 7, 20)   \* @0
    \o DirHead(3)                       \* @20 directory root: entries, reserved
    \o Rec(55, 57, 0)                   \* @28 record: file "a"
    \o Rec(65, 67, 0)                   \* @37 record: file "b"
    \o Rec(88, 90, 0)                   \* @46 record: file "c"
    \o Str(<<97>>)                      \* @55 name "a"
    \o FileInfo(65, 0)                  \* @57 file info of "a": dataOffset, dataSize
    \o Str(<<98>>)                      \* @65 name "b"
    \o FileInfo(75, 5)                  \* @67 file info of "b": dataOffset, dataSize
    \o Table(<<9>>)                     \* @75 chunk-size table of "b"
    \o Chunk(5, 1)                      \* @79 chunk 0 of "b"
    \o Str(<<99>>)                      \* @88 name "c"
    \o FileInfo(98, 65541)              \* @90 file info of "c": dataOffset, dataSize
    \o Table(<<10, 9>>)                 \* @98 chunk-size table of "c"
    \o Chunk(65536, 2)                  \* @106 chunk 0 of "c"
    \o Chunk(5, 1)                      \* @116 chunk 1 of "c"

(* Nested directories, one of them with an empty name.  "x" declares 131073 bytes
   (three chunks) but each chunk decompresses to as many bytes as it occupies;
   "y" has a corrupt only chunk; "z" has a corrupt third chunk. *)
ImgNested ==
       Header(HAPI_MAGIC, HAPI_VERSION_MAGIC, 20, 3, 20)   \* @0
    \o DirHead(2)                       \* @20 directory root: entries, reserved
    \o Rec(46, 48, 1)                   \* @28 record: directory "d"
    \o Rec(165, 167, 0)                 \* @37 record: file "z"
    \o Str(<<100>>)                     \* @46 name "d"
    \o DirHead(2)                       \* @48 directory "d": entries, reserved
    \o Rec(74, 76, 0)                   \* @56 record: file "x"
    \o Rec(124, 125, 1)                 \* @65 record: directory ""
    \o Str(<<120>>)                     \* @74 name "x"
    \o FileInfo(84, 131073)             \* @76 file info of "x": dataOffset, dataSize
    \o Table(<<9, 10, 9>>)              \* @84 chunk-size table of "x"
    \o Chunk(9, 1)                      \* @96 chunk 0 of "x"
    \o Chunk(10, 2)                     \* @105 chunk 1 of "x"
    \o Chunk(9, 1)                      \* @115 chunk 2 of "x"
    \o Str(<<>>)                        \* @124 name ""
    \o DirHead(1)                       \* @125 directory "": entries, reserved
    \o Rec(142, 144, 0)                 \* @133 record: file "y"
    \o Str(<<121>>)                     \* @142 name "y"
    \o FileInfo(152, 3)                 \* @144 file info of "y": dataOffset, dataSize
    \o Table(<<9>>)                     \* @152 chunk-size table of "y"
    \o BadChunk(3, 1)                   \* @156 chunk 0 of "y"
    \o Str(<<122>>)                     \* @165 name "z"
    \o FileInfo(175, 131074)            \* @167 file info of "z": dataOffset, dataSize
    \o Table(<<9, 9, 9>>)               \* @175 chunk-size table of "z"
    \o Chunk(9, 1)                      \* @187 chunk 0 of "z"
    \o Chunk(9, 1)                      \* @196 chunk 1 of "z"
    \o BadChunk(2, 1)                   \* @205 chunk 2 of "z"

(* The first record of the root has entrytype 2. *)
ImgBadType ==
       Header(HAPI_MAGIC, HAPI_VERSION_MAGIC, 20, 0, 20)   \* @0
    \o DirHead(1)                       \* @20 directory root: entries, reserved
    \o Rec(37, 0, 2)                    \* @28 record: entrytype 2
    \o Str(<<117>>)                     \* @37 name "u"

(* A record of entrytype 3 is met in a subdirectory after entries have been built. *)
ImgBadTypeDeep ==
       Header(HAPI_MAGIC, HAPI_VERSION_MAGIC, 20, 0, 20)   \* @0
    \o DirHead(2)                       \* @20 directory root: entries, reserved
    \o Rec(46, 48, 0)                   \* @28 record: file "a"
    \o Rec(69, 71, 1)                   \* @37 record: directory "d"
    \o Str(<<97>>)                      \* @46 name "a"
    \o FileInfo(56, 4)                  \* @48 file info of "a": dataOffset, dataSize
    \o Table(<<9>>)                     \* @56 chunk-size table of "a"
    \o Chunk(4, 1)                      \* @60 chunk 0 of "a"
    \o Str(<<100>>)                     \* @69 name "d"
    \o DirHead(2)                       \* @71 directory "d": entries, reserved
    \o Rec(97, 99, 0)                   \* @79 record: file "b"
    \o Rec(107, 0, 3)                   \* @88 record: entrytype 3
    \o Str(<<98>>)                      \* @97 name "b"
    \o FileInfo(107, 0)                 \* @99 file info of "b": dataOffset, dataSize
    \o Str(<<117>>)                     \* @107 name "u"

(* The only record of the root is a subdirectory whose infoOffset is the root's own offset. *)
ImgCycle ==
       Header(HAPI_MAGIC, HAPI_VERSION_MAGIC, 20, 0, 20)   \* @0
    \o DirHead(1)                       \* @20 directory root: entries, reserved
    \o Rec(37, 20, 1)                   \* @28 record: entrytype 1
    \o Str(<<114>>)                     \* @37 name "r"

(* A file whose dataOffset lies far outside the image. *)
ImgWild ==
       Header(HAPI_MAGIC, HAPI_VERSION_MAGIC, 20, 0, 20)   \* @0
    \o DirHead(1)                       \* @20 directory root: entries, reserved
    \o Rec(37, 39, 0)                   \* @28 record: file "w"
    \o Str(<<119>>)                     \* @37 name "w"
    \o FileInfo(1000000, 5)             \* @39 file info of "w": dataOffset, dataSize

(* A directory of empty name directly under the root, with a directory "e"
   below it that holds the file "f". *)
ImgEmptyName ==
       Header(HAPI_MAGIC, HAPI_VERSION_MAGIC, 20, 0, 20)   \* @0
    \o DirHead(1)                       \* @20 directory root: entries, reserved
    \o Rec(37, 38, 1)                   \* @28 record: directory ""
    \o Str(<<>>)                        \* @37 name ""
    \o DirHead(1)                       \* @38 directory "": entries, reserved
    \o Rec(55, 57, 1)                   \* @46 record: directory "e"
    \o Str(<<101>>)                     \* @55 name "e"
    \o DirHead(1)                       \* @57 directory "e": entries, reserved
    \o Rec(74, 76, 0)                   \* @65 record: file "f"
    \o Str(<<102>>)                     \* @74 name "f"
    \o FileInfo(84, 1)                  \* @76 file info of "f": dataOffset, dataSize
    \o Table(<<9>>)                     \* @84 chunk-size table of "f"
    \o Chunk(1, 1)                      \* @88 chunk 0 of "f"

(* A second archive with one single-chunk file. *)
ImgOther ==
       Header(HAPI_MAGIC, HAPI_VERSION_MAGIC, 20, 1, 20)   \* @0
    \o DirHead(1)                       \* @20 directory root: entries, reserved
    \o Rec(37, 39, 0)                   \* @28 record: file "q"
    \o Str(<<113>>)                     \* @37 name "q"
    \o FileInfo(47, 2)                  \* @39 file info of "q": dataOffset, dataSize
    \o Table(<<9>>)                     \* @47 chunk-size table of "q"
    \o Chunk(2, 1)                      \* @51 chunk 0 of "q"

(* The image of ImgOther under a header with the given signatures. *)
ImgMagic(magic1, magic2) ==
       Header(magic1, magic2, 20, 1, 20)
    \o DirHead(1) \o Rec(37, 39, 0) \o Str(<<113>>) \o FileInfo(47, 2)
    \o Table(<<9>>) \o Chunk(2, 1)

\* Archive 1 is opened on any of these.  In the last eight at least one
\* signature is wrong: magic1 mutated (in one bit, or to the save-game
\* constant) with every kind of magic2, and a right magic1 with each kind of
\* wrong magic2.
Images ==
    {  ImgEmpty, ImgFlat, ImgNested, ImgBadType, ImgBadTypeDeep, ImgCycle, ImgWild, ImgOther,
       ImgEmptyName,
       ImgMagic(HAPI_MAGIC + 1, HAPI_VERSION_MAGIC),
       ImgMagic(HAPI_MAGIC + 1, BANK_MAGIC),
       ImgMagic(HAPI_MAGIC + 1, HAPI2_VERSION_MAGIC),
       ImgMagic(BANK_MAGIC, 0),
       ImgMagic(HAPI_MAGIC, BANK_MAGIC),
       ImgMagic(HAPI_MAGIC, HAPI2_VERSION_MAGIC),
       ImgMagic(HAPI_MAGIC, 0),
       ImgMagic(HAPI_MAGIC, HAPI_MAGIC) }

\* The archive objects of a run: two hpifile instances.
Archives == {1, 2}
\* Archive 1 is opened on any image, archive 2 on the image ImgOther.
ImagesOf(a) == IF a = 1 THEN Images ELSE {ImgOther}

(***************************************************************************)
(* State.                                                                  *)
(***************************************************************************)
VARIABLES
    img,        \* img[a]: the bytes of the file archive a is opened on
    serial,     \* whether the callers of getdata are serialized externally
    opc,        \* opc[a]: where the constructor of a stands:
                \*   "new", "walking", "ready" (returned), "invalid" (returned
                \*   after a bad signature), "thrown" (left by the exception)
    valid,      \* valid[a]: hpifile::valid
    header,     \* header[a]: header_hapimagic, header_bankmagic, header_offset,
                \*   header_key, header_diroffset
    key,        \* key[a]: the key of a's stream (-1: none set)
    pos,        \* pos[a]: the cursor of a's stream
    diag,       \* diag[a]: what the constructor reported
    flatlist,   \* flatlist[a]: hpifile::flatlist, entry ids in push_back order
    heap,       \* the hpientry objects allocated so far; an id is an index
    stack,      \* stack[a]: the active dirinfo calls of a, outermost first
    root,       \* root[a]: the entry the outermost dirinfo returned (0: none yet)
    calls,      \* calls[a]: how many dirinfo and fileinfo calls a's open made
    openpos,    \* openpos[a]: where the constructor left the cursor of a
    call        \* call[t]: the getdata call of caller t: its arguments, its
                \*   locals, the caller's buffer and, once returned, its result

vars == << img, serial, opc, valid, header, key, pos, diag, flatlist, heap, stack, root, calls, openpos, call >>

(***************************************************************************)
(* The stream (scrambledfile), by its contract: absolute seek, reads at    *)
(* the cursor that advance it.  A read past the end of the file yields     *)
(* zero bytes.                                                             *)
(***************************************************************************)
Bytes(a) == img[a]

ByteAt(a, p) == IF p >= 0 /\ p < Len(Bytes(a)) THEN Bytes(a)[p + 1] ELSE 0

\* file->readint() with the cursor at p: a little-endian 32-bit value.
readint(a, p) ==
    ByteAt(a, p) + 256 * ByteAt(a, p + 1) + 65536 * ByteAt(a, p + 2) + 16777216 * ByteAt(a, p + 3)

\* file->read() with the cursor at p: one byte.
read(a, p) == ByteAt(a, p)

\* file->readstring() with the cursor at p: the bytes up to the terminator.
RECURSIVE readstring(_, _)
readstring(a, p) ==
    IF p >= Len(Bytes(a)) \/ ByteAt(a, p) = 0 THEN << >>
    ELSE << ByteAt(a, p) >> \o readstring(a, p + 1)

(***************************************************************************)
(* hpifile::hpifile and hpifile::validate                                  *)
(***************************************************************************)
\* The callers of getdata.
Threads == {1, 2}

\* No getdata call made yet.
Idle ==
    [at |-> "idle", this |-> 0, he |-> 0, fresh |-> FALSE, chunknum |-> 0, chunksizes |-> << >>,
     tableat |-> << >>, i |-> 0, chunkoffset |-> 0, j |-> 0, data |-> << >>, views |-> << >>,
     ret |-> 0, err |-> "none"]

NoHeader == [hapimagic |-> 0, bankmagic |-> 0, offset |-> 0, key |-> 0, diroffset |-> 0]

\* Nothing constructed, no call made.
Fresh ==
    /\ img \in [Archives -> Images]
    /\ \A a \in Archives : img[a] \in ImagesOf(a)
    /\ opc = [a \in Archives |-> "new"]
    /\ valid = [a \in Archives |-> FALSE]
    /\ header = [a \in Archives |-> NoHeader]
    /\ key = [a \in Archives |-> -1]
    /\ pos = [a \in Archives |-> 0]
    /\ diag = [a \in Archives |-> "none"]
    /\ flatlist = [a \in Archives |-> << >>]
    /\ heap = << >>
    /\ stack = [a \in Archives |-> << >>]
    /\ root = [a \in Archives |-> 0]
    /\ calls = [a \in Archives |-> [dirinfo |-> 0, fileinfo |-> 0]]
    /\ openpos = [a \in Archives |-> 0]
    /\ call = [t \in Threads |-> Idle]

\* The program as it is meant to be used: one call of getdata at a time.
Init == Fresh /\ serial = TRUE

\* The program with and without the external serialization of its callers,
\* on the images whose every byte is below 128: whatever position a call
\* reads a table value at, the 32-bit value read is below 2^31.
InitRace ==
    /\ Fresh
    /\ serial \in BOOLEAN
    /\ \A a \in Archives : \A k \in 1..Len(img[a]) : img[a][k] < 128

\* Archives are constructed one after the other.
Constructed(a) == opc[a] \in {"ready", "invalid", "thrown"}

MayConstruct(a) == opc[a] = "new" /\ \A b \in Archives : b < a => Constructed(b)

\* A validate that looks at the subtype signature first.
validateCheckSubtypeFirst(magic1, magic2) ==
    IF magic2 # HAPI_VERSION_MAGIC THEN
        IF magic2 = BANK_MAGIC THEN "UnsupportedSubtype(savegame-like)"
        ELSE IF magic2 = HAPI2_VERSION_MAGIC THEN "UnsupportedSubtype(unsupported-version)"
        ELSE "UnsupportedSubtype(unknown)"
    ELSE IF magic1 # HAPI_MAGIC THEN "InvalidSignature"
    ELSE "ok"

\* The outcome of the two signature checks of validate.
validateCheck(magic1, magic2) ==
    IF magic1 # HAPI_MAGIC THEN "InvalidSignature"
    ELSE IF magic2 # HAPI_VERSION_MAGIC THEN
        IF magic2 = BANK_MAGIC THEN "UnsupportedSubtype(savegame-like)"
        ELSE IF magic2 = HAPI2_VERSION_MAGIC THEN "UnsupportedSubtype(unsupported-version)"
        ELSE "UnsupportedSubtype(unknown)"
    ELSE "ok"

\* A new activation of dirinfo(parentname, dirname, offset).
Frame(parentname, dirname, offset) ==
    [parentname |-> parentname, dirname |-> dirname, offset |-> offset,
     at |-> "enter", newparent |-> << >>, entries |-> 0, i |-> 0,
     listing |-> << >>, currentpos |-> 0, readat |-> << >>]

\* validate up to its return on a wrong signature.
validateFail(a) ==
    /\ MayConstruct(a)
    /\ LET magic1 == readint(a, 0)
           magic2 == readint(a, 4)
           res == validateCheck(magic1, magic2)
       IN /\ res # "ok"
          /\ valid' = [valid EXCEPT ![a] = FALSE]
          /\ diag' = [diag EXCEPT ![a] = res]
          /\ IF res = "InvalidSignature"
             THEN /\ header' = [header EXCEPT ![a].hapimagic = magic1]
                  /\ pos' = [pos EXCEPT ![a] = 4]
             ELSE /\ header' = [header EXCEPT ![a].hapimagic = magic1, ![a].bankmagic = magic2]
                  /\ pos' = [pos EXCEPT ![a] = 8]
          /\ opc' = [opc EXCEPT ![a] = "invalid"]
    /\ UNCHANGED << img, serial, key, flatlist, heap, stack, root, calls, openpos, call >>

\* validate with both signatures right, up to its call of dirinfo.
validateWalk(a) ==
    /\ MayConstruct(a)
    /\ LET magic1 == readint(a, 0)
           magic2 == readint(a, 4)
       IN /\ validateCheck(magic1, magic2) = "ok"
          /\ header' = [header EXCEPT ![a] =
                 [hapimagic |-> magic1, bankmagic |-> magic2, offset |-> readint(a, 8),
                  key |-> readint(a, 12), diroffset |-> readint(a, 16)]]
          /\ pos' = [pos EXCEPT ![a] = 20]
          /\ key' = [key EXCEPT ![a] = readint(a, 12)]
          /\ valid' = [valid EXCEPT ![a] = TRUE]
          /\ stack' = [stack EXCEPT ![a] = << Frame(<< >>, << >>, readint(a, 16)) >>]
          /\ calls' = [calls EXCEPT ![a].dirinfo = 1]
          /\ opc' = [opc EXCEPT ![a] = "walking"]
    /\ UNCHANGED << img, serial, diag, flatlist, heap, root, openpos, call >>

(***************************************************************************)
(* hpifile::dirinfo and hpifile::fileinfo                                  *)
(***************************************************************************)
\* new hpientry(file, parentname, name, offset, size): a file entry until
\* dirinfo marks it a directory.
hpientry(file, parentname, name, offset, size) ==
    [file |-> file, parentname |-> parentname, name |-> name, offset |-> offset,
     size |-> size, directory |-> FALSE, subdir |-> << >>]

\* The path handed down to the children of a directory.
newparentOf(parentname, dirname) ==
    IF parentname = << >> THEN dirname
    ELSE parentname \o << PATHSEPARATOR >> \o dirname

\* flatlist.push_back(ret) of fileinfo.
fileinfoPush(fl, id) == Append(fl, id)

\* A dirinfo that registers the directory ahead of what is registered so far.
dirinfoPushFront(fl, id) == << id >> \o fl

\* flatlist.push_back(ret) of dirinfo, after the loop over the records.
dirinfoPush(fl, id) == Append(fl, id)

\* flatlist.push_back(&dirinfo(...)) of validate.
validatePush(fl, id) == Append(fl, id)

\* A loop that puts each entry ahead of the ones of the earlier records.
listingPushFront(listing, id) == << id >> \o listing

\* listing.push_back(...) of the loop, for a file and for a subdirectory.
listingPush(listing, id) == Append(listing, id)

\* A loop that leaves the cursor where the processing of the record left it.
seekBackNone(currentpos, cursor) == cursor

\* file->seek(currentpos) at the end of an iteration: where the cursor is
\* afterwards, given where the processing of the record left it.
seekBack(currentpos, cursor) == currentpos

\* A loop that runs once more than there are records.
loopCondInclusive(i, entries) == i <= entries

\* The condition of the loop over the records.
loopCond(i, entries) == i < entries

Top(a) == stack[a][Len(stack[a])]

SetTop(a, f) == [stack EXCEPT ![a][Len(stack[a])] = f]

\* dirinfo from its entry to the head of the loop.
dirinfoEnter(a) ==
    /\ opc[a] = "walking"
    /\ Top(a).at = "enter"
    /\ LET f == Top(a)
       IN /\ stack' = SetTop(a, [f EXCEPT !.at = "loop",
                                          !.newparent = newparentOf(f.parentname, f.dirname),
                                          !.entries = readint(a, f.offset),
                                          !.i = 0])
          /\ pos' = [pos EXCEPT ![a] = f.offset + 8]
    /\ UNCHANGED << img, serial, opc, valid, header, key, diag, flatlist, heap, root, calls, openpos, call >>

InLoop(a) == opc[a] = "walking" /\ Top(a).at = "loop" /\ loopCond(Top(a).i, Top(a).entries)

\* The record the loop reads next, at the cursor.
nameoffset(a) == readint(a, pos[a])
infooffset(a) == readint(a, pos[a] + 4)
entrytype(a) == read(a, pos[a] + 8)
currentpos(a) == pos[a] + 9

\* One iteration of the loop on a file record, fileinfo included.
dirinfoFile(a) ==
    /\ InLoop(a)
    /\ entrytype(a) = 0
    /\ LET f == Top(a)
           itemname == readstring(a, nameoffset(a))
           doff == readint(a, infooffset(a))
           dsize == readint(a, infooffset(a) + 4)
           id == Len(heap) + 1
       IN /\ heap' = Append(heap, hpientry(a, f.newparent, itemname, doff, dsize))
          /\ flatlist' = [flatlist EXCEPT ![a] = fileinfoPush(@, id)]
          /\ stack' = SetTop(a, [f EXCEPT !.listing = listingPush(@, id),
                                          !.currentpos = currentpos(a),
                                          !.readat = Append(@, pos[a]),
                                          !.i = @ + 1])
          /\ pos' = [pos EXCEPT ![a] = seekBack(currentpos(a), infooffset(a) + 8)]
          /\ calls' = [calls EXCEPT ![a].fileinfo = @ + 1]
    /\ UNCHANGED << img, serial, opc, valid, header, key, diag, root, openpos, call >>

\* One iteration of the loop on a subdirectory record, up to the nested call.
dirinfoSubdir(a) ==
    /\ InLoop(a)
    /\ entrytype(a) = 1
    /\ Len(stack[a]) < MaxDepth
    /\ LET f == Top(a)
           itemname == readstring(a, nameoffset(a))
       IN /\ stack' = [stack EXCEPT ![a] =
                 Append(SetTop(a, [f EXCEPT !.currentpos = currentpos(a),
                                            !.readat = Append(@, pos[a])])[a],
                        Frame(f.newparent, itemname, infooffset(a)))]
          /\ pos' = [pos EXCEPT ![a] = infooffset(a)]
          /\ calls' = [calls EXCEPT ![a].dirinfo = @ + 1]
    /\ UNCHANGED << img, serial, opc, valid, header, key, diag, flatlist, heap, root, openpos, call >>

\* One iteration of the loop on a record of any other type: the exception
\* leaves dirinfo, every caller, validate and the constructor; nothing on the
\* way touches valid or flatlist.
dirinfoThrow(a) ==
    /\ InLoop(a)
    /\ entrytype(a) \notin {0, 1}
    /\ opc' = [opc EXCEPT ![a] = "thrown"]
    /\ diag' = [diag EXCEPT ![a] = "UnknownEntryType"]
    /\ pos' = [pos EXCEPT ![a] = infooffset(a)]
    /\ stack' = [stack EXCEPT ![a] = << >>]
    /\ UNCHANGED << img, serial, valid, header, key, flatlist, heap, root, calls, openpos, call >>

LoopDone(a) == opc[a] = "walking" /\ Top(a).at = "loop" /\ ~loopCond(Top(a).i, Top(a).entries)

\* The directory entry dirinfo builds after its loop.
dirinfoEntry(a, f) ==
    [hpientry(a, f.parentname, f.dirname, 0, 0) EXCEPT !.directory = TRUE, !.subdir = f.listing]

\* The end of a nested dirinfo and the rest of the caller's iteration.
dirinfoReturn(a) ==
    /\ LoopDone(a)
    /\ Len(stack[a]) > 1
    /\ LET f == Top(a)
           id == Len(heap) + 1
           caller == stack[a][Len(stack[a]) - 1]
       IN /\ heap' = Append(heap, dirinfoEntry(a, f))
          /\ flatlist' = [flatlist EXCEPT ![a] = dirinfoPush(@, id)]
          /\ stack' = [stack EXCEPT ![a] =
                 Append(SubSeq(@, 1, Len(@) - 2),
                        [caller EXCEPT !.listing = listingPush(@, id), !.i = @ + 1])]
          /\ pos' = [pos EXCEPT ![a] = seekBack(caller.currentpos, pos[a])]
    /\ UNCHANGED << img, serial, opc, valid, header, key, diag, root, calls, openpos, call >>

\* The end of the outermost dirinfo and the rest of validate.
validateDone(a) ==
    /\ LoopDone(a)
    /\ Len(stack[a]) = 1
    /\ LET f == Top(a)
           id == Len(heap) + 1
       IN /\ heap' = Append(heap, dirinfoEntry(a, f))
          /\ flatlist' = [flatlist EXCEPT ![a] = validatePush(dirinfoPush(@, id), id)]
          /\ root' = [root EXCEPT ![a] = id]
    /\ stack' = [stack EXCEPT ![a] = << >>]
    /\ opc' = [opc EXCEPT ![a] = "ready"]
    /\ UNCHANGED << img, serial, valid, header, key, pos, diag, calls, call >>
    /\ openpos' = [openpos EXCEPT ![a] = pos[a]]

(***************************************************************************)
(* The bounded view (substream) and the chunk codec (sqshstream), by their *)
(* contracts.  A view of size bytes at start is a valid chunk when it      *)
(* holds the marker and the decompressed length; decoding it yields that   *)
(* many bytes, which stand here as the payload they are decoded from.      *)
(***************************************************************************)
sqshValid(a, start, size) == size >= 8 /\ readint(a, start) = SQSH_MAGIC

\* sqsh->readall(): the number of bytes written.
sqshLength(a, start, size) == readint(a, start + 4)

\* The bytes sqsh->readall() writes (the view ends where the file ends).
sqshBytes(a, start, size) ==
    LET last == IF start + size < Len(Bytes(a)) THEN start + size ELSE Len(Bytes(a))
    IN [k \in 1..(last - start - 8) |-> ByteAt(a, start + 7 + k)]

\* The cursor after new substream(file, start, size) has read the view.
substreamEnd(a, start, size) == start + size

(***************************************************************************)
(* hpifile::getdata                                                        *)
(***************************************************************************)
bitdiv(x, bits) == x \div Pow2(bits)

bitmod(x, bits) == x % Pow2(bits)

Range(s) == {s[k] : k \in 1..Len(s)}

\* The entries a caller can hold: those of the flat lists of the archives
\* whose constructor returned with valid set.
Usable(a) == Constructed(a) /\ opc[a] = "ready" /\ valid[a]

Reachable == UNION {Range(flatlist[a]) : a \in {b \in Archives : Usable(b)}}

\* Callers that are never serialized.
MayCallUnserialized(t) ==
    /\ \A a \in Archives : Constructed(a)
    /\ call[t].at = "idle"

\* A call starts once every archive has been constructed.  Serialized
\* callers call again and again, each call once no call is running; callers
\* that are not serialized make one call each, whatever the other is doing.
MayCall(t) ==
    /\ \A a \in Archives : Constructed(a)
    /\ IF serial THEN \A u \in Threads : call[u].at \in {"idle", "returned"}
                 ELSE call[t].at = "idle"

\* A getdata that tests for a directory before it tests the owner.
getdataCheckDirectoryFirst(a, e) ==
    IF heap[e].directory THEN "NotAFile"
    ELSE IF heap[e].file # a THEN "EntryMismatch"
    ELSE "ok"

\* A getdata without the test for a directory.
getdataCheckOwnerOnly(a, e) ==
    IF heap[e].file # a THEN "EntryMismatch"
    ELSE "ok"

\* The two checks at the head of getdata.
getdataCheck(a, e) ==
    IF heap[e].file # a THEN "EntryMismatch"
    ELSE IF heap[e].directory THEN "NotAFile"
    ELSE "ok"

\* A getdata that returns the bytes decoded so far when a chunk is not valid.
corruptReturnPrefix(j) == j

\* What getdata returns when a chunk is not valid.
corruptReturn(j) == 0

\* The number of chunks of an entry of the given size.
chunknumOf(size) == bitdiv(size, ChunkBits) + (IF bitmod(size, ChunkBits) # 0 THEN 1 ELSE 0)

\* A getdata that reads the table wherever the cursor stands.
seekTargetNone(e, cursor) == cursor

\* Where getdata seeks to before it reads the table.
seekTarget(e, cursor) == heap[e].offset

\* Where the view of the next chunk starts.
chunkStart(c) == c.chunkoffset + c.j

\* getdata refusing the entry.
getdataReject(t, a, e) ==
    /\ MayCall(t) /\ Usable(a) /\ e \in Reachable
    /\ getdataCheck(a, e) # "ok"
    /\ call' = [call EXCEPT ![t] = [Idle EXCEPT !.at = "returned", !.this = a, !.he = e,
                                                !.fresh = (pos[a] = openpos[a]),
                                                !.ret = 0, !.err = getdataCheck(a, e)]]
    /\ UNCHANGED << img, serial, opc, valid, header, key, pos, diag, flatlist, heap, stack, root, calls, openpos >>

\* getdata accepting the entry: the chunk count and the zeroed table.
getdataStart(t, a, e) ==
    /\ MayCall(t) /\ Usable(a) /\ e \in Reachable
    /\ getdataCheck(a, e) = "ok"
    /\ LET chunknum == chunknumOf(heap[e].size)
       IN call' = [call EXCEPT ![t] = [Idle EXCEPT !.at = "seek", !.this = a, !.he = e,
                                                   !.fresh = (pos[a] = openpos[a]),
                                                   !.chunknum = chunknum,
                                                   !.chunksizes = [k \in 1..chunknum |-> 0]]]
    /\ UNCHANGED << img, serial, opc, valid, header, key, pos, diag, flatlist, heap, stack, root, calls, openpos >>

\* file->seek(he.offset)
getdataSeek(t) ==
    /\ call[t].at = "seek"
    /\ pos' = [pos EXCEPT ![call[t].this] = seekTarget(call[t].he, @)]
    /\ call' = [call EXCEPT ![t].at = "table", ![t].i = 0]
    /\ UNCHANGED << img, serial, opc, valid, header, key, diag, flatlist, heap, stack, root, calls, openpos >>

\* chunksizes[i] = file->readint()
getdataTable(t) ==
    /\ call[t].at = "table"
    /\ call[t].i < call[t].chunknum
    /\ LET a == call[t].this
       IN /\ call' = [call EXCEPT ![t].chunksizes[call[t].i + 1] = readint(a, pos[a]),
                                  ![t].tableat = Append(@, pos[a]),
                                  ![t].i = @ + 1]
          /\ pos' = [pos EXCEPT ![a] = @ + 4]
    /\ UNCHANGED << img, serial, opc, valid, header, key, diag, flatlist, heap, stack, root, calls, openpos >>

\* The table is read: chunkoffset and j are set for the loop over the chunks.
getdataTableDone(t) ==
    /\ call[t].at = "table"
    /\ call[t].i >= call[t].chunknum
    /\ call' = [call EXCEPT ![t].at = "chunks", ![t].i = 0, ![t].j = 0,
                            ![t].chunkoffset = heap[call[t].he].offset + call[t].chunknum * 4]
    /\ UNCHANGED << img, serial, opc, valid, header, key, pos, diag, flatlist, heap, stack, root, calls, openpos >>

InChunks(t) == call[t].at = "chunks" /\ call[t].i < call[t].chunknum

\* One iteration of the loop over the chunks on a valid chunk.
getdataChunk(t) ==
    /\ InChunks(t)
    /\ LET c == call[t]
           a == c.this
           chunksize == c.chunksizes[c.i + 1]
           start == chunkStart(c)
       IN /\ sqshValid(a, start, chunksize)
          /\ call' = [call EXCEPT ![t].views = Append(@, << start, chunksize >>),
                                  ![t].data = Append(@, [at |-> c.j,
                                                         len |-> sqshLength(a, start, chunksize),
                                                         bytes |-> sqshBytes(a, start, chunksize)]),
                                  ![t].j = @ + sqshLength(a, start, chunksize),
                                  ![t].i = @ + 1]
          /\ pos' = [pos EXCEPT ![a] = substreamEnd(a, start, chunksize)]
    /\ UNCHANGED << img, serial, opc, valid, header, key, diag, flatlist, heap, stack, root, calls, openpos >>

\* A getdata that marks the archive invalid when a chunk is not valid.
getdataCorruptFatal(t) ==
    /\ call[t].at = "chunks" /\ call[t].i < call[t].chunknum
    /\ LET c == call[t]
           a == c.this
           chunksize == c.chunksizes[c.i + 1]
           start == c.chunkoffset + c.j
       IN /\ ~sqshValid(a, start, chunksize)
          /\ call' = [call EXCEPT ![t].views = Append(@, << start, chunksize >>),
                                  ![t].at = "returned",
                                  ![t].ret = 0,
                                  ![t].err = "CorruptChunk"]
          /\ pos' = [pos EXCEPT ![a] = substreamEnd(a, start, chunksize)]
          /\ valid' = [valid EXCEPT ![a] = FALSE]
    /\ UNCHANGED << img, serial, opc, header, key, diag, flatlist, heap, stack, root, calls, openpos >>

\* One iteration of the loop over the chunks on a chunk that is not valid.
getdataCorrupt(t) ==
    /\ InChunks(t)
    /\ LET c == call[t]
           a == c.this
           chunksize == c.chunksizes[c.i + 1]
           start == chunkStart(c)
       IN /\ ~sqshValid(a, start, chunksize)
          /\ call' = [call EXCEPT ![t].views = Append(@, << start, chunksize >>),
                                  ![t].at = "returned",
                                  ![t].ret = corruptReturn(c.j),
                                  ![t].err = "CorruptChunk"]
          /\ pos' = [pos EXCEPT ![a] = substreamEnd(a, start, chunksize)]
    /\ UNCHANGED << img, serial, opc, valid, header, key, diag, flatlist, heap, stack, root, calls, openpos >>

\* free(chunksizes); return j
getdataReturn(t) ==
    /\ call[t].at = "chunks"
    /\ call[t].i >= call[t].chunknum
    /\ call' = [call EXCEPT ![t].at = "returned", ![t].ret = call[t].j]
    /\ UNCHANGED << img, serial, opc, valid, header, key, pos, diag, flatlist, heap, stack, root, calls, openpos >>

getdata(t) ==
    \/ \E a \in Archives, e \in 1..Len(heap) : getdataReject(t, a, e) \/ getdataStart(t, a, e)
    \/ getdataSeek(t)
    \/ getdataTable(t)
    \/ getdataTableDone(t)
    \/ getdataChunk(t)
    \/ getdataCorrupt(t)
    \/ getdataReturn(t)

open(a) ==
    \/ validateFail(a)
    \/ validateWalk(a)
    \/ dirinfoEnter(a)
    \/ dirinfoFile(a)
    \/ dirinfoSubdir(a)
    \/ dirinfoThrow(a)
    \/ dirinfoReturn(a)
    \/ validateDone(a)

Next ==
    \/ \E a \in Archives : open(a)
    \/ \E t \in Threads : getdata(t)

Spec == Init /\ [][Next]_vars

\* The same program, its callers serialized or not.
SpecRace == InitRace /\ [][Next]_vars

\* The constructors alone.  They are synchronous code: a constructor that
\* can take its next step takes it.
NextOpen == \E a \in Archives : open(a)

SpecOpen == Init /\ [][NextOpen]_vars /\ WF_vars(NextOpen)

(***************************************************************************)
(* Properties.                                                             *)
(***************************************************************************)
Returned(t) == call[t].at = "returned"

\* The entry of a call and whether the call is on the entry's own archive.
Entry(t) == heap[call[t].he]
OwnFile(t) == Returned(t) /\ Entry(t).file = call[t].this /\ ~Entry(t).directory

\* The archive format, read off the image without the stream's cursor:
\* the chunk count of a file, its table, and where its chunks lie.
FormatChunkCount(size) == (size + Pow2(ChunkBits) - 1) \div Pow2(ChunkBits)

FormatChunkSize(a, offset, k) == readint(a, offset + 4 * k)

RECURSIVE FormatChunkStart(_, _, _, _)
FormatChunkStart(a, offset, n, k) ==
    IF k = 0 THEN offset + 4 * n
    ELSE FormatChunkStart(a, offset, n, k - 1) + FormatChunkSize(a, offset, k - 1)

RECURSIVE FormatLength(_, _, _, _)
FormatLength(a, offset, n, k) ==
    IF k = 0 THEN 0
    ELSE FormatLength(a, offset, n, k - 1)
         + sqshLength(a, FormatChunkStart(a, offset, n, k - 1), FormatChunkSize(a, offset, k - 1))

\* Entry e of archive a is a well-formed file: its chunks, stored back-to-back
\* after the table, are all valid and decompress to size bytes in total.
WellFormedFile(a, e) ==
    LET n == FormatChunkCount(heap[e].size)
        offset == heap[e].offset
    IN /\ \A k \in 0..(n - 1) :
              sqshValid(a, FormatChunkStart(a, offset, n, k), FormatChunkSize(a, offset, k))
       /\ FormatLength(a, offset, n, n) = heap[e].size

(* C1: for every well-formed file entry, getdata returns exactly entry.size
   bytes, for files of one chunk and of several chunks alike. *)
C1_ReturnsSize ==
    \A t \in Threads :
        OwnFile(t) /\ WellFormedFile(call[t].this, call[t].he)
            => call[t].err = "none" /\ call[t].ret = Entry(t).size

(* C2, as claimed: after every successful open, the first element of the flat
   list is the root entry. *)
C2_RootFirst ==
    \A a \in Archives : opc[a] = "ready" => flatlist[a][1] = root[a]

(* C2, amended: after every successful open, the root entry (a directory of
   empty name and empty parent path) is the last element of the flat list; it
   is the first element exactly when the root directory has no records. *)
C2_RootLast ==
    \A a \in Archives :
        opc[a] = "ready" =>
            /\ root[a] \in 1..Len(heap)
            /\ heap[root[a]].directory
            /\ heap[root[a]].name = << >> /\ heap[root[a]].parentname = << >>
            /\ heap[root[a]].file = a
            /\ flatlist[a][Len(flatlist[a])] = root[a]
            /\ (flatlist[a][1] = root[a] <=> heap[root[a]].subdir = << >>)

\* A successful open of a tree with nested subdirectories.
C2_Witness ==
    \E a \in Archives :
        /\ opc[a] = "ready"
        /\ \E d \in Range(heap[root[a]].subdir) : heap[d].directory /\ heap[d].subdir # << >>
        /\ flatlist[a][1] # root[a]

\* The signatures of the image of a, and what the constructor did past them.
Magic1(a) == readint(a, 0)
Magic2(a) == readint(a, 4)
Refused(a, d) ==
    /\ opc[a] = "invalid" /\ diag[a] = d /\ ~valid[a]
    /\ key[a] = -1 /\ calls[a].dirinfo = 0 /\ flatlist[a] = << >>

(* C3: the outcome of open is determined by the header signatures, magic1
   first: a wrong magic1 gives InvalidSignature whatever magic2 is; with a
   right magic1, magic2 gives UnsupportedSubtype savegame-like, unsupported-
   version or unknown; in all four cases the archive is left invalid, and only
   with both right is the key set and the directory walked. *)
C3_OpenOutcome ==
    \A a \in Archives :
        opc[a] # "new" =>
            /\ Magic1(a) # HAPI_MAGIC => Refused(a, "InvalidSignature")
            /\ Magic1(a) = HAPI_MAGIC /\ Magic2(a) = BANK_MAGIC
                   => Refused(a, "UnsupportedSubtype(savegame-like)")
            /\ Magic1(a) = HAPI_MAGIC /\ Magic2(a) = HAPI2_VERSION_MAGIC
                   => Refused(a, "UnsupportedSubtype(unsupported-version)")
            /\ Magic1(a) = HAPI_MAGIC
                   /\ Magic2(a) \notin {HAPI_VERSION_MAGIC, BANK_MAGIC, HAPI2_VERSION_MAGIC}
                   => Refused(a, "UnsupportedSubtype(unknown)")
            /\ Magic1(a) = HAPI_MAGIC /\ Magic2(a) = HAPI_VERSION_MAGIC
                   => /\ opc[a] \in {"walking", "ready", "thrown"}
                      /\ key[a] = header[a].key /\ key[a] = readint(a, 12)
                      /\ calls[a].dirinfo >= 1

\* An open refused for its magic1 although magic2 is the save-game signature.
C3_Witness ==
    \E a \in Archives :
        /\ Magic1(a) # HAPI_MAGIC /\ Magic2(a) = BANK_MAGIC
        /\ opc[a] = "invalid"

(* C4: open is atomic: when it ends, either the archive is valid and holds
   the completely built tree, or it is not valid and retains no entries;
   in particular after UnknownEntryType. *)
C4_OpenAtomic ==
    \A a \in Archives :
        Constructed(a) =>
            \/ valid[a] /\ opc[a] = "ready" /\ root[a] # 0
            \/ ~valid[a] /\ flatlist[a] = << >>

\* The views a call handed to the codec that the codec found not valid.
BadViews(t) ==
    {k \in 1..Len(call[t].views) :
        ~sqshValid(call[t].this, call[t].views[k][1], call[t].views[k][2])}

(* C5: if the codec reports a chunk invalid, whichever it is and however many
   chunks were decoded before it, getdata fails with CorruptChunk and returns
   zero bytes, never the length of the prefix decoded so far. *)
C5_CorruptReturnsZero ==
    \A t \in Threads :
        /\ call[t].at = "chunks" => BadViews(t) = {}
        /\ Returned(t) /\ BadViews(t) # {} => call[t].err = "CorruptChunk" /\ call[t].ret = 0
        /\ Returned(t) /\ call[t].err = "CorruptChunk" => call[t].ret = 0

\* A call that failed on its third chunk after decoding two.
C5_Witness ==
    \E t \in Threads :
        /\ Returned(t) /\ call[t].err = "CorruptChunk"
        /\ BadViews(t) = {3} /\ call[t].j > 0 /\ Len(call[t].data) = 2

\* The call of t is on an archive that does not own the entry.
Foreign(c) == c.at # "idle" /\ heap[c.he].file # c.this

(* C6: getdata on an archive with an entry of another archive fails with
   EntryMismatch and returns zero bytes, for a file and for a directory, before
   any seek or read on the archive's stream. *)
C6_EntryMismatch ==
    [][\A t \in Threads :
          Foreign(call'[t]) =>
              /\ call'[t].at = "returned"
              /\ call'[t].err = "EntryMismatch" /\ call'[t].ret = 0
              /\ call'[t].views = << >> /\ call'[t].data = << >>
              /\ call'[t] # call[t] => pos' = pos]_vars

\* Both callers were refused a foreign entry, one a file and one a directory.
C6_Witness ==
    \E t, u \in Threads :
        /\ Returned(t) /\ Foreign(call[t]) /\ ~Entry(t).directory
        /\ Returned(u) /\ Foreign(call[u]) /\ Entry(u).directory
        /\ call[t].this # call[u].this

\* The call of t is on a directory entry of its own archive.
OwnDirectory(c) == c.at # "idle" /\ heap[c.he].file = c.this /\ heap[c.he].directory

(* C7: getdata with a directory entry of the same archive, the root or a
   subdirectory, fails with NotAFile and returns zero bytes, without any seek or
   read on the stream. *)
C7_NotAFile ==
    [][\A t \in Threads :
          OwnDirectory(call'[t]) =>
              /\ call'[t].at = "returned"
              /\ call'[t].err = "NotAFile" /\ call'[t].ret = 0
              /\ call'[t].views = << >> /\ call'[t].data = << >>
              /\ call'[t] # call[t] => pos' = pos]_vars

\* Both callers were refused a directory: the root, and a subdirectory that
\* is not empty.
C7_Witness ==
    \E t, u \in Threads :
        /\ Returned(t) /\ OwnDirectory(call[t]) /\ call[t].he = root[call[t].this]
        /\ Returned(u) /\ OwnDirectory(call[u]) /\ call[u].he # root[call[u].this]
        /\ Entry(u).subdir # << >>

(* C8: every getdata call on a file entry of an archive returns the same
   result, byte count and bytes, whatever calls ran before it and wherever
   they left the cursor. *)
C8_SameResult ==
    \A t, u \in Threads :
        OwnFile(t) /\ OwnFile(u) /\ call[t].this = call[u].this /\ call[t].he = call[u].he
            => /\ call[t].ret = call[u].ret
               /\ call[t].err = call[u].err
               /\ call[t].data = call[u].data

\* Two calls on one file returned its bytes; one began with the cursor where
\* open left it, the other with the cursor where an earlier call left it.
C8_Witness ==
    \E t, u \in Threads :
        /\ OwnFile(t) /\ OwnFile(u) /\ call[t].this = call[u].this /\ call[t].he = call[u].he
        /\ call[t].fresh /\ ~call[u].fresh
        /\ call[t].ret > 0 /\ call[u].ret > 0

(* C9: every getdata call, succeeding or failing, leaves the validity flag,
   the entries and the flat list unchanged; the stream cursor is the only state
   of the archive it may change. *)
C9_Frame ==
    [][call' # call =>
          UNCHANGED << valid, heap, flatlist, root, opc, key, header, img >>]_vars

\* A call has failed on a corrupt chunk and another has returned bytes.
C9_Witness ==
    \E t, u \in Threads :
        /\ Returned(t) /\ call[t].err = "CorruptChunk"
        /\ Returned(u) /\ call[u].err = "none" /\ call[u].ret > 0

RECURSIVE SumTo(_, _)
SumTo(sizes, k) == IF k = 0 THEN 0 ELSE SumTo(sizes, k - 1) + sizes[k]

(* C10: the view handed to the codec for chunk i starts at entry.offset +
   4*chunkCount + chunkSize[0] + ... + chunkSize[i-1] and spans chunkSize[i]
   bytes: the read position advances by the compressed size of each chunk. *)
C10_ViewPositions ==
    \A t \in Threads :
        \A k \in 1..Len(call[t].views) :
            call[t].views[k] =
                << Entry(t).offset + 4 * call[t].chunknum + SumTo(call[t].chunksizes, k - 1),
                   call[t].chunksizes[k] >>

(***************************************************************************)
(* The tree and the flat list after open.                                  *)
(***************************************************************************)
\* The entries of the tree under entry e, e included.
RECURSIVE TreeNodes(_)
TreeNodes(e) == {e} \cup UNION { TreeNodes(c) : c \in Range(heap[e].subdir) }

\* How many times x occurs in the sequence s, and where.
Places(s, x) == { k \in 1..Len(s) : s[k] = x }
Count(s, x) == Cardinality(Places(s, x))

(* C11: after a successful open the flat list contains every entry of the
   tree (the root, every subdirectory, every file) exactly once, so that its
   length is the number of nodes of the tree. *)
C11_FlatListOnce ==
    \A a \in Archives :
        opc[a] = "ready" =>
            /\ Range(flatlist[a]) = TreeNodes(root[a])
            /\ \A e \in TreeNodes(root[a]) : Count(flatlist[a], e) = 1
            /\ Len(flatlist[a]) = Cardinality(TreeNodes(root[a]))

\* What holds instead: every entry but the root once, the root twice.
C11_RootTwice ==
    \A a \in Archives :
        opc[a] = "ready" =>
            /\ Range(flatlist[a]) = TreeNodes(root[a])
            /\ \A e \in TreeNodes(root[a]) :
                   Count(flatlist[a], e) = IF e = root[a] THEN 2 ELSE 1
            /\ Len(flatlist[a]) = Cardinality(TreeNodes(root[a])) + 1

(***************************************************************************)
(* Calls of getdata that overlap.                                          *)
(***************************************************************************)
\* What getdata(e) on archive a returns when no other call moves the cursor
\* while it runs: the table is the one at the entry's offset.
RECURSIVE AloneRun(_, _, _, _)
AloneRun(a, e, i, j) ==
    LET n == chunknumOf(heap[e].size)
        chunksize == readint(a, heap[e].offset + 4 * i)
        start == heap[e].offset + 4 * n + j
    IN IF i >= n THEN [ret |-> j, err |-> "none"]
       ELSE IF sqshValid(a, start, chunksize)
            THEN AloneRun(a, e, i + 1, j + sqshLength(a, start, chunksize))
            ELSE [ret |-> corruptReturn(j), err |-> "CorruptChunk"]

\* Every table value call t has read so far, it read where its own seek and
\* its own reads had put the cursor.
Undisturbed(t) ==
    \A k \in 1..Len(call[t].tableat) :
        call[t].tableat[k] = heap[call[t].he].offset + 4 * (k - 1)

Outcome(t) == [ret |-> call[t].ret, err |-> call[t].err]

(* C12: getdata calls are safe when serialized: with each call running to
   completion before the next one starts, no call reads a table value at a
   cursor position another call has set, and a call that read its table
   undisturbed returns its serialized result.  (That calls which overlap
   reach a state where this fails is C12_Witness.) *)
C12_SerializedSafe ==
    \A t \in Threads :
        /\ serial => Undisturbed(t)
        /\ OwnFile(t) /\ Undisturbed(t) => Outcome(t) = AloneRun(call[t].this, call[t].he, 0, 0)

\* Two calls on the same archive overlapped: one of them read a table value
\* at a cursor position the other had set, and returned something else than
\* its serialized result.
C12_Witness ==
    /\ ~serial
    /\ \E t, u \in Threads :
           /\ t # u /\ call[u].this = call[t].this /\ call[u].at # "idle"
           /\ OwnFile(t) /\ ~Undisturbed(t)
           /\ Outcome(t) # AloneRun(call[t].this, call[t].he, 0, 0)

(* C13: after a successful open the offset of every entry lies within the
   file, 0 <= offset < file length, whatever 32-bit value the dataOffset
   field of a file record holds. *)
C13_OffsetsInBounds ==
    \A a \in Archives :
        opc[a] = "ready" =>
            \A e \in TreeNodes(root[a]) :
                0 <= heap[e].offset /\ heap[e].offset < Len(Bytes(a))

\* The format of a directory, read off the image without the stream's
\* cursor: the record count of the directory at offset o and its k-th
\* record, k from 0.
DiskEntries(a, o) == readint(a, o)
DiskRec(a, o, k) ==
    [nameoffset |-> readint(a, o + 8 + 9 * k),
     infooffset |-> readint(a, o + 8 + 9 * k + 4),
     entrytype |-> read(a, o + 8 + 9 * k + 8)]

\* The children sequence of directory entry e, built from the directory at
\* offset o, lists the records of o in their order on disk, and so on below.
RECURSIVE OnDiskOrder(_, _, _)
OnDiskOrder(a, e, o) ==
    /\ Len(heap[e].subdir) = DiskEntries(a, o)
    /\ \A k \in 1..Len(heap[e].subdir) :
           LET r == DiskRec(a, o, k - 1)
               c == heap[e].subdir[k]
           IN /\ heap[c].name = readstring(a, r.nameoffset)
              /\ heap[c].directory = (r.entrytype = 1)
              /\ r.entrytype = 1 => OnDiskOrder(a, c, r.infooffset)

\* Every occurrence of x in the sequence s comes before every occurrence of
\* y, and x occurs.
Before(s, x, y) ==
    /\ Places(s, x) # {}
    /\ \A p \in Places(s, x), q \in Places(s, y) : p < q

(* C14: after a successful open, for every directory D of the flat list:
   D's children sequence lists the entries in the order of their records on
   disk; every child of D, and so every descendant, occurs in the flat list
   before D; and the children of D occur in the flat list in the order they
   have in D's children sequence. *)
C14_RegistrationOrder ==
    \A a \in Archives :
        opc[a] = "ready" =>
            /\ OnDiskOrder(a, root[a], header[a].diroffset)
            /\ \A D \in Range(flatlist[a]) :
                   heap[D].directory =>
                       /\ \A c \in TreeNodes(D) \ {D} : Before(flatlist[a], c, D)
                       /\ \A k1, k2 \in 1..Len(heap[D].subdir) :
                              k1 < k2 => Before(flatlist[a], heap[D].subdir[k1], heap[D].subdir[k2])

\* A successful open of a tree in which a directory below the root holds a
\* file followed by a directory that is not empty.
C14_Witness ==
    \E a \in Archives :
        /\ opc[a] = "ready"
        /\ \E D \in Range(flatlist[a]) :
               /\ D # root[a] /\ Len(heap[D].subdir) >= 2
               /\ ~heap[heap[D].subdir[1]].directory
               /\ heap[heap[D].subdir[2]].directory
               /\ heap[heap[D].subdir[2]].subdir # << >>

(* C15: while a directory at offset o is being built, its i-th record
   (i from 0) is read with the cursor at o + 8 + 9 * i, whatever the
   nameOffset and infoOffset of the records before it and however deep the
   subdirectories among them recursed; after each record has been processed
   the cursor is just past that record. *)
C15_CursorDiscipline ==
    \A a \in Archives :
        opc[a] = "walking" =>
            \A d \in 1..Len(stack[a]) :
                LET f == stack[a][d]
                IN f.at = "loop" =>
                       /\ Len(f.readat) = f.i + (IF d < Len(stack[a]) THEN 1 ELSE 0)
                       /\ \A k \in 1..Len(f.readat) : f.readat[k] = f.offset + 8 + 9 * (k - 1)
                       /\ d = Len(stack[a]) => pos[a] = f.offset + 8 + 9 * f.i

\* The root directory has processed two records, the first of them a
\* subdirectory that holds a subdirectory of its own.
C15_Witness ==
    \E a \in Archives :
        /\ opc[a] = "walking" /\ Len(stack[a]) = 1
        /\ Top(a).at = "loop" /\ Top(a).i = 2
        /\ heap[Top(a).listing[1]].directory
        /\ \E c \in Range(heap[Top(a).listing[1]].subdir) : heap[c].directory

(* C16: when getdata fails with CorruptChunk at a chunk i > 0, the bytes
   decoded from the chunks 0..i-1 are discarded: the caller's buffer holds
   no byte written by this call and is what it was before the call. *)
C16_BufferUntouched ==
    \A t \in Threads :
        Returned(t) /\ call[t].err = "CorruptChunk" => call[t].data = << >>

\* The names joined by the path separator.
RECURSIVE Join(_)
Join(names) ==
    IF names = << >> THEN << >>
    ELSE IF Len(names) = 1 THEN names[1]
    ELSE Join(SubSeq(names, 1, Len(names) - 1)) \o << PATHSEPARATOR >> \o names[Len(names)]

\* Every entry under directory e has as its parent path the join of anc, the
\* names of its ancestors below the root down to its parent.
RECURSIVE PathsJoined(_, _)
PathsJoined(e, anc) ==
    \A c \in Range(heap[e].subdir) :
        /\ heap[c].parentname = Join(anc)
        /\ heap[c].directory => PathsJoined(c, Append(anc, heap[c].name))

(* C17: after a successful open the root has an empty name and an empty
   parent path, and the parent path of every other entry is the names of its
   ancestors below the root, from the root's child down to its parent,
   joined by the separator and nothing more, at every depth and also when a
   directory on the path has an empty name. *)
C17_ParentPath ==
    \A a \in Archives :
        opc[a] = "ready" =>
            /\ heap[root[a]].name = << >> /\ heap[root[a]].parentname = << >>
            /\ PathsJoined(root[a], << >>)

\* The same for the trees in which no directory directly under the root has
\* an empty name.
C17_ParentPathNamedTop ==
    \A a \in Archives :
        opc[a] = "ready" /\ (\A c \in Range(heap[root[a]].subdir) : heap[c].name # << >>) =>
            /\ heap[root[a]].name = << >> /\ heap[root[a]].parentname = << >>
            /\ PathsJoined(root[a], << >>)

(***************************************************************************)
(* The walk of open, read off the image.                                   *)
(***************************************************************************)
\* No subdirectory record at or below the directory at offset o leads back
\* to o or to a directory of the set building, the ones above o.
RECURSIVE NoBackEdge(_, _, _)
NoBackEdge(a, o, building) ==
    \A k \in 0..(DiskEntries(a, o) - 1) :
        DiskRec(a, o, k).entrytype = 1 =>
            /\ DiskRec(a, o, k).infooffset \notin building \cup {o}
            /\ NoBackEdge(a, DiskRec(a, o, k).infooffset, building \cup {o})

\* The signatures of a are right and its directory records form an acyclic graph.
Acyclic(a) ==
    /\ validateCheck(Magic1(a), Magic2(a)) = "ok"
    /\ NoBackEdge(a, readint(a, 16), {})

\* The records reached from record k of the directory at offset o on, in
\* the order of the walk: how many subdirectory records and file records,
\* and whether the walk got through (ok) or met a record of another type.
RECURSIVE Reached(_, _, _)
Reached(a, o, k) ==
    IF k >= DiskEntries(a, o) THEN [dirs |-> 0, files |-> 0, ok |-> TRUE]
    ELSE LET r == DiskRec(a, o, k)
         IN IF r.entrytype = 0
            THEN LET rest == Reached(a, o, k + 1)
                 IN [rest EXCEPT !.files = @ + 1]
            ELSE IF r.entrytype = 1
            THEN LET sub == Reached(a, r.infooffset, 0)
                 IN IF sub.ok
                    THEN LET rest == Reached(a, o, k + 1)
                         IN [dirs |-> 1 + sub.dirs + rest.dirs,
                             files |-> sub.files + rest.files, ok |-> rest.ok]
                    ELSE [sub EXCEPT !.dirs = @ + 1]
            ELSE [dirs |-> 0, files |-> 0, ok |-> FALSE]

\* The constructor of a is over, and it made one dirinfo call for the root
\* and one per subdirectory record reached, one fileinfo call per file
\* record reached; it left the archive valid when the walk got through and
\* threw UnknownEntryType when it did not.
WalkedOnce(a) ==
    LET w == Reached(a, readint(a, 16), 0)
    IN /\ calls[a].dirinfo = 1 + w.dirs
       /\ calls[a].fileinfo = w.files
       /\ IF w.ok THEN opc[a] = "ready" /\ valid[a]
                  ELSE opc[a] = "thrown" /\ diag[a] = "UnknownEntryType"

(* C18: for every image with right signatures whose directory records form
   an acyclic graph, open terminates, with the archive valid or with
   UnknownEntryType, after one dirinfo call for the root and one per
   subdirectory record reached, and one fileinfo call per file record
   reached. *)
C18_OpenTerminates ==
    /\ [](\A a \in Archives : Constructed(a) /\ Acyclic(a) => WalkedOnce(a))
    /\ \A a \in Archives :
           (opc[a] = "walking" /\ Acyclic(a)) ~> (opc[a] \in {"ready", "thrown"})

\* An open that met a record of unknown type in a subdirectory, after file
\* records at both levels.
C18_Witness ==
    \E a \in Archives :
        /\ Acyclic(a) /\ opc[a] = "thrown"
        /\ calls[a].dirinfo >= 2 /\ calls[a].fileinfo >= 2

====
